---- MODULE Spec2Model ----
(***************************************************************************)
(* Model of src/main.go: the threshold parser (parseDistance), the         *)
(* bounding-box solver (find, findBoundingBox) and the visit scan at the   *)
(* end of main.                                                            *)
(*                                                                         *)
(* Numbers.  The program computes in float64.                              *)
(*   - a coordinate, and the increment of find, is a float64: a record     *)
(*     [neg, m, e] standing for (-1)^neg * m * 2^e degrees, with the       *)
(*     53-bit significand m, the exponent range and the rounding (to the   *)
(*     nearest, ties to the even significand) of IEEE 754 binary64, so     *)
(*     that a sum, a midpoint and the flags' decimal values are the        *)
(*     float64 values the program computes;                                *)
(*   - a distance, like the threshold parsed from the flag, is a float64   *)
(*     of kilometres, and a quotient, a difference and a comparison of     *)
(*     distances are the float64 operations of the program.                *)
(* geodist.VincentyDistance is a library outside the repository.  find     *)
(* only ever measures from the center to a point on the center's meridian  *)
(* or on its parallel; the model measures such a pair by the length of     *)
(* the meridian or parallel arc on the WGS-84 ellipsoid at the center's    *)
(* latitude (ArcScale), linear in the coordinate offset, rounded to a      *)
(* float64.  In the scan the coordinates of the points are not modelled:   *)
(* the outcome of each distance computation (a distance, or an error) is   *)
(* an input.                                                               *)
(***************************************************************************)
EXTENDS Integers, Sequences, FiniteSets, TLC

VARIABLES
    pc,                         \* position in main
    latitude, longitude,        \* the -lat and -long flags, in micro-degrees
    threshold,                  \* the -threshold flag: [count100, suffix, numeric]
    target,                     \* the target point [Lat, Long]
    threshholdKm,               \* parseDistance's result (a float64 of km)
    search,                     \* findBoundingBox: index of the running find
    phase,                      \* find: "expand" (first loop) or "bisect"
    inc,                        \* find: inc
    ext,                        \* findBoundingBox: the points e, n, w, s
    a, b,                       \* find: the bisection bounds
    ne, sw,                     \* findBoundingBox's results
    err,                        \* the error main dies with ("" if none)
    script,                     \* the outcomes of a fixed point sequence, or <<>>
    last,                       \* indexes[len(indexes)-1] - indexes[0]
    idx,                        \* the scan's idx - indexes[0]
    startTime, endTime,
    totalInsideCount, consecutiveInsideCount,
    maxConsecutiveInsideCount, consecutiveOutsideCount,
    visits,                     \* the "Visited for ..." lines logged
    dropped                     \* the "Dropped visit ..." lines logged (-debug)

boxVars == <<search, phase, inc, ext, a, b, ne, sw>>
scanVars == <<last, idx, startTime, endTime, totalInsideCount,
              consecutiveInsideCount, maxConsecutiveInsideCount,
              consecutiveOutsideCount, visits, dropped>>
flagVars == <<latitude, longitude, threshold>>
vars == <<pc, flagVars, target, threshholdKm, err, script, boxVars, scanVars>>

----------------------------------------------------------------------------
(* Program constants, in the model's units *)

\* main.go:269
minPinpointCount == 10
\* main.go:148, inc := 1e-6 (degrees)
InitialInc == 1
\* main.go:166, threshold := 0.0001 (km)
BisectThreshold == 10
\* main.go:201, 211: the latitude limit 90 (degrees), in micro-degrees
LatLimit == 90000000
\* main.go:196, 206: the longitude limit 180 (degrees), in micro-degrees
LongLimit == 180000000

Abs(x) == IF x < 0 THEN -x ELSE x

Min(x, y) == IF x < y THEN x ELSE y

Max(x, y) == IF x < y THEN y ELSE x

(* natural numbers of any size *)

\* a natural number is the sequence of its digits to the base Limb, the
\* lowest first and the highest not 0
Limb == 10000

RECURSIVE Digits(_)
Digits(x) == IF x = 0 THEN <<>> ELSE <<x % Limb>> \o Digits(x \div Limb)

RECURSIVE AddCarry(_, _, _)
AddCarry(A, B, c) ==
    IF A = <<>> /\ B = <<>>
    THEN Digits(c)
    ELSE LET x == IF A = <<>> THEN 0 ELSE Head(A)
             y == IF B = <<>> THEN 0 ELSE Head(B)
         IN  <<(x + y + c) % Limb>> \o
             AddCarry(IF A = <<>> THEN A ELSE Tail(A),
                      IF B = <<>> THEN B ELSE Tail(B), (x + y + c) \div Limb)

NatAdd(A, B) == AddCarry(A, B, 0)

RECURSIVE Trim(_)
Trim(A) ==
    IF A # <<>> /\ A[Len(A)] = 0 THEN Trim(SubSeq(A, 1, Len(A) - 1)) ELSE A

\* A - B for A >= B
RECURSIVE SubBorrow(_, _, _)
SubBorrow(A, B, c) ==
    IF A = <<>>
    THEN <<>>
    ELSE LET y == IF B = <<>> THEN 0 ELSE Head(B)
             t == Head(A) - y - c
         IN  <<t % Limb>> \o
             SubBorrow(Tail(A), IF B = <<>> THEN B ELSE Tail(B), IF t < 0 THEN 1 ELSE 0)

NatSub(A, B) == Trim(SubBorrow(A, B, 0))

\* A * m + c for a digit m > 0
RECURSIVE MulLimb(_, _, _)
MulLimb(A, m, c) ==
    IF A = <<>>
    THEN Digits(c)
    ELSE <<(Head(A) * m + c) % Limb>> \o MulLimb(Tail(A), m, (Head(A) * m + c) \div Limb)

RECURSIVE NatMul(_, _)
NatMul(A, B) ==
    IF A = <<>> \/ B = <<>>
    THEN <<>>
    ELSE IF B = <<1>>
    THEN A
    ELSE IF A = <<1>>
    THEN B
    ELSE IF Len(B) > Len(A)
    THEN NatMul(B, A)
    ELSE LET low == IF Head(B) = 0 THEN <<>> ELSE MulLimb(A, Head(B), 0)
             high == NatMul(A, Tail(B))
         IN  NatAdd(low, IF high = <<>> THEN <<>> ELSE <<0>> \o high)

RECURSIVE NatLess(_, _)
NatLess(A, B) ==
    IF Len(A) # Len(B)
    THEN Len(A) < Len(B)
    ELSE IF A = <<>>
    THEN FALSE
    ELSE IF A[Len(A)] # B[Len(B)]
    THEN A[Len(A)] < B[Len(B)]
    ELSE NatLess(SubSeq(A, 1, Len(A) - 1), SubSeq(B, 1, Len(B) - 1))

Odd(N) == N # <<>> /\ Head(N) % 2 = 1

\* [q, r]: N = q * d + r, for 0 < d <= 8192
RECURSIVE DivSmall(_, _)
DivSmall(N, d) ==
    IF N = <<>>
    THEN [q |-> <<>>, r |-> 0]
    ELSE LET hi == DivSmall(Tail(N), d)
             t == hi.r * Limb + Head(N)
         IN  [q |-> IF hi.q = <<>> /\ t < d THEN <<>> ELSE <<t \div d>> \o hi.q,
              r |-> t % d]

\* the number of bits of N
RECURSIVE BitLen(_)
BitLen(N) ==
    IF N = <<>>
    THEN 0
    ELSE IF Len(N) > 1
    THEN 13 + BitLen(DivSmall(N, 8192).q)
    ELSE 1 + BitLen(DivSmall(N, 2).q)

\* N * 2^k
RECURSIVE ShiftLeft(_, _)
ShiftLeft(N, k) ==
    IF k = 0 \/ N = <<>>
    THEN N
    ELSE IF k > 13
    THEN ShiftLeft(MulLimb(N, 8192, 0), k - 13)
    ELSE MulLimb(N, 2^k, 0)

\* A * 2^p < B * 2^q
ScaledLess(A, p, B, q) ==
    IF p = q
    THEN NatLess(A, B)
    ELSE IF A = <<>> \/ B = <<>>
    THEN B # <<>>
    ELSE LET la == BitLen(A) + p
             lb == BitLen(B) + q
         IN  IF la # lb
             THEN la < lb
             ELSE IF p > q
             THEN NatLess(ShiftLeft(A, p - q), B)
             ELSE NatLess(A, ShiftLeft(B, q - p))

\* the largest k <= acc + 2 * bit - 1 with k * B <= R, found bit by bit
RECURSIVE QuotientDigit(_, _, _, _)
QuotientDigit(R, B, bit, acc) ==
    IF bit = 0
    THEN acc
    ELSE IF NatLess(R, MulLimb(B, acc + bit, 0))
    THEN QuotientDigit(R, B, bit \div 2, acc)
    ELSE QuotientDigit(R, B, bit \div 2, acc + bit)

\* [q, r]: A = q * B + r, for B > 0, thirteen bits of q at a time
RECURSIVE DivNat(_, _)
DivNat(A, B) ==
    IF NatLess(A, B)
    THEN [q |-> <<>>, r |-> A]
    ELSE LET h == DivNat(A, MulLimb(B, 8192, 0))
         IN  IF NatLess(h.r, B)
             THEN [q |-> MulLimb(h.q, 8192, 0), r |-> h.r]
             ELSE LET d == QuotientDigit(h.r, B, 4096, 0)
                  IN  [q |-> NatAdd(MulLimb(h.q, 8192, 0), Digits(d)),
                       r |-> NatSub(h.r, MulLimb(B, d, 0))]

(* float64 arithmetic *)

\* the bits of the significand of a float64
Precision == 53
\* the exponent of the smallest positive float64, 2^-1074
MinExp == -1074

\* a float64 is a record [neg, m, e] standing for (-1)^neg * m * 2^e, the
\* natural number m below 2^Precision and, unless e = MinExp, not below
\* 2^(Precision - 1).  0 is Zero: the program computes and compares the
\* same with -0 as with 0
Zero == [neg |-> FALSE, m |-> <<>>, e |-> MinExp]

\* s.q shifted right by j bits, 0 < j <= 13: half is the highest bit
\* shifted out, sticky tells whether any bit below it was 1
ShiftStep(s, j) ==
    LET dv == DivSmall(s.q, 2^j)
    IN  [q |-> dv.q,
         half |-> dv.r >= 2^(j - 1),
         sticky |-> s.sticky \/ s.half \/ dv.r % 2^(j - 1) # 0]

\* s.q shifted right by k bits; of 0, further shifts leave 0 and fold the
\* half into the sticky bit
RECURSIVE ShiftRight(_, _)
ShiftRight(s, k) ==
    IF k = 0
    THEN s
    ELSE IF s.q = <<>>
    THEN [q |-> <<>>, half |-> FALSE, sticky |-> s.sticky \/ s.half]
    ELSE ShiftRight(ShiftStep(s, Min(k, 13)), k - Min(k, 13))

\* the float64 of significand q and exponent e, q below 2^(Precision + 1):
\* a significand of Precision + 1 bits, the carry of a rounding up, is
\* 2^Precision
Normal(neg, q, e) ==
    IF q = <<>>
    THEN Zero
    ELSE IF BitLen(q) > Precision
    THEN [neg |-> neg, m |-> DivSmall(q, 2).q, e |-> e + 1]
    ELSE [neg |-> neg, m |-> q, e |-> e]

\* s.q rounded to the nearest, a tie going to the even significand
Nearest(s) ==
    IF s.half /\ (s.sticky \/ Odd(s.q)) THEN NatAdd(s.q, <<1>>) ELSE s.q

\* Round with the k bits of N that do not fit the significand
RoundBits(neg, N, e, inexact, k) ==
    IF k <= 0
    THEN [neg |-> neg, m |-> ShiftLeft(N, -k), e |-> e + k]
    ELSE Normal(neg,
                Nearest(ShiftRight([q |-> N, half |-> FALSE, sticky |-> inexact], k)),
                e + k)

\* the float64 nearest to (-1)^neg * N * 2^e (plus a positive amount below
\* 2^e if inexact), a tie going to the even significand
Round(neg, N, e, inexact) ==
    IF N = <<>>
    THEN Zero
    ELSE RoundBits(neg, N, e, inexact, Max(BitLen(N) - Precision, MinExp - e))

\* the float64 nearest to (-1)^neg * N * 2^x / (d1 * d2), for 0 < d1, d2 <=
\* 8192
Scaled(neg, N, x, d1, d2) ==
    LET q1 == DivSmall(ShiftLeft(N, 80), d1)
        q2 == DivSmall(q1.q, d2)
    IN  Round(neg, q2.q, x - 80, q1.r # 0 \/ q2.r # 0)

\* the float64 of the decimal n / 1000000 (a flag's value, a literal)
FloatOfMicro(n) == Scaled(n < 0, Digits(Abs(n)), 0, 1000, 1000)

\* the float64 of the decimal cm / 100000: cm centimetres, in kilometres
Km(cm) == Scaled(cm < 0, Digits(Abs(cm)), 0, 1000, 100)

\* -x
FNeg(x) == IF x.m = <<>> THEN x ELSE [x EXCEPT !.neg = ~@]

\* x * 2, for x no subnormal
FDouble(x) == IF x.m = <<>> THEN x ELSE [x EXCEPT !.e = @ + 1]

\* x / 2
FHalf(x) == Round(x.neg, x.m, x.e - 1, FALSE)

\* |X - Y| if minus, else X + Y
Apart(minus, X, Y) ==
    IF ~minus
    THEN NatAdd(X, Y)
    ELSE IF NatLess(X, Y) THEN NatSub(Y, X) ELSE NatSub(X, Y)

\* the significand of x at the exponent e <= x.e
Aligned(x, e) == ShiftLeft(x.m, x.e - e)

\* x + y from the significands X and Y of x and y at the exponent e: the
\* sign is that of the larger
Sum(x, y, X, Y, e) ==
    Round(IF x.neg # y.neg /\ NatLess(X, Y) THEN y.neg ELSE x.neg,
          Apart(x.neg # y.neg, X, Y), e, FALSE)

\* x + y at the smaller exponent e of the two
SumAt(x, y, e) == Sum(x, y, Aligned(x, e), Aligned(y, e), e)

\* x + y
FAdd(x, y) ==
    IF x.m = <<>>
    THEN y
    ELSE IF y.m = <<>>
    THEN x
    ELSE IF x.e - y.e > Precision + 2
    THEN x
    ELSE IF y.e - x.e > Precision + 2
    THEN y
    ELSE SumAt(x, y, Min(x.e, y.e))

\* x - y
FSub(x, y) == FAdd(x, FNeg(y))

\* -x for x < 0, else x
FAbs(x) == [x EXCEPT !.neg = FALSE]

\* the float64 nearest to (-1)^neg * (dv.q + dv.r / B) * 2^e, dv the
\* quotient and the remainder of a division by B
Quotient(neg, dv, e) == Round(neg, dv.q, e, dv.r # <<>>)

\* x / y from the quotient of x.m * 2^s by y.m, Precision + 2 bits or more
FDivAt(x, y, s) ==
    Quotient(x.neg # y.neg, DivNat(ShiftLeft(x.m, s), y.m), x.e - y.e - s)

\* x / y, for y # 0
FDiv(x, y) ==
    IF x.m = <<>>
    THEN Zero
    ELSE FDivAt(x, y, Max(Precision + 2 + BitLen(y.m) - BitLen(x.m), 0))

\* |x| < |y|
MagLess(x, y) == x.e < y.e \/ (x.e = y.e /\ NatLess(x.m, y.m))

\* x < y
FLess(x, y) ==
    IF x.neg # y.neg
    THEN x.neg
    ELSE IF x.neg THEN MagLess(y, x) ELSE MagLess(x, y)

\* |c - d| at the smaller exponent e of the two
GapAt(c, d, e) ==
    [n |-> Apart(c.neg = d.neg, Aligned(c, e), Aligned(d, e)), e |-> e]

\* |c - d|, exact: the natural number n of [n, e] stands for n * 2^e
Gap(c, d) ==
    IF c = d
    THEN [n |-> <<>>, e |-> 0]
    ELSE IF c.m = <<>>
    THEN [n |-> d.m, e |-> d.e]
    ELSE IF d.m = <<>>
    THEN [n |-> c.m, e |-> c.e]
    ELSE GapAt(c, d, Min(c.e, d.e))

----------------------------------------------------------------------------
(* parseDistance *)

\* strings.HasSuffix(dist, abbrev) on the suffixes the model draws
HasSuffix(suffix, abbrev) ==
    \/ suffix = abbrev
    \/ suffix = "km" /\ abbrev = "m"

\* the table of units: perKM is the float64 of the decimal n / (d1 * d2)
Units ==
    << [abbrev |-> "km", n |-> 1,      d1 |-> 1,    d2 |-> 1],
       [abbrev |-> "ft", n |-> 328084, d1 |-> 100,  d2 |-> 1],
       [abbrev |-> "mi", n |-> 621371, d1 |-> 1000, d2 |-> 1000],
       [abbrev |-> "m",  n |-> 1000,   d1 |-> 1,    d2 |-> 1] >>

perKM(unit) == Scaled(FALSE, Digits(unit.n), 0, unit.d1, unit.d2)

\* strconv.ParseFloat of a decimal given in hundredths
ParseFloat(count100) == Scaled(count100 < 0, Digits(Abs(count100)), 0, 100, 1)

\* count / unit.perKM
ToKm(count100, unit) == FDiv(ParseFloat(count100), perKM(unit))

\* the units whose abbreviation ends the string
Hits(dist) == { i \in 1..Len(Units) : HasSuffix(dist.suffix, Units[i].abbrev) }

\* the error of parseDistance, "" if none: the first unit of the table
\* whose abbreviation ends the string decides; what stands before it must
\* parse as a number
ParseError(dist) ==
    IF Hits(dist) = {}
    THEN "No recognized units in distance"
    ELSE IF ~dist.numeric
    THEN "Error parsing distance"
    ELSE ""

\* the first of the units hits
First(hits) == CHOOSE i \in hits : \A j \in hits : i <= j

\* [err, km]
parseDistance(dist) ==
    IF ParseError(dist) # ""
    THEN [err |-> ParseError(dist), km |-> Zero]
    ELSE [err |-> "", km |-> ToKm(dist.count100, Units[First(Hits(dist))])]

----------------------------------------------------------------------------
(* geodist.VincentyDistance between the center and a point of its meridian *)
(* or parallel                                                             *)

\* centimetres per degree of latitude (ns) and per degree of longitude
\* (ew), at the latitude of lat micro-degrees
ArcScale(lat) ==
    CASE lat = 0        -> [ns |-> 11058000, ew |-> 11132000]
      [] lat = 36461755 -> [ns |-> 11096000, ew |-> 8964000]
      [] lat = 60000000 -> [ns |-> 11142000, ew |-> 5580000]
      [] lat = 89000000 -> [ns |-> 11170000, ew |-> 194000]
      [] lat = 89999000 -> [ns |-> 11170000, ew |-> 194]

\* a whole turn less the gap raw of more than half a turn, at the exponent
\* e <= 0 of the gap
Wrapped(raw, turn, e) ==
    [n |-> Apart(TRUE, ShiftLeft(turn, -e), ShiftLeft(raw.n, raw.e - e)), e |-> e]

\* the gap raw of two longitudes taken the shorter way round, half the
\* degrees of half a turn
Shorter(raw, half) ==
    IF ScaledLess(half, 0, raw.n, raw.e)
    THEN Wrapped(raw, MulLimb(half, 2, 0), Min(raw.e, 0))
    ELSE raw

\* the difference of the longitudes, the shorter way round, in degrees:
\* [n, e] stands for n * 2^e
LongGap(p1, p2) ==
    Shorter(Gap(p2.Long, p1.Long), Digits(LongLimit \div 1000000))

\* a gap of 179.5 degrees or more
NearlyOpposite(g) == ~ScaledLess(g.n, g.e, <<359>>, -1)

\* the error of VincentyDistance: no convergence, for nearly antipodal
\* points (on one meridian or parallel: two points of the equator about 180
\* degrees of longitude apart, here within half a degree)
VincentyFails(p1, p2) ==
    /\ latitude = 0
    /\ p1.Lat = Zero
    /\ p2.Lat = Zero
    /\ NearlyOpposite(LongGap(p1, p2))

\* the arc of dLat degrees of the meridian, or of dLong degrees of the
\* parallel, with the centimetres of one degree
ArcOf(sc, dLat, dLong) ==
    CASE dLong.n = <<>> -> [v |-> dLat, cm |-> sc.ns]
      [] dLat.n = <<>>  -> [v |-> dLong, cm |-> sc.ew]

\* the arc between the two points: its length v in degrees and the
\* centimetres cm of one degree
Arc(p1, p2) ==
    ArcOf(ArcScale(latitude), Gap(p2.Lat, p1.Lat), LongGap(p1, p2))

\* the length of an arc in kilometres, a float64
ArcKm(arc) ==
    Scaled(FALSE, NatMul(arc.v.n, Digits(arc.cm)), arc.v.e, 1000, 100)

\* the length of the arc between the two points in kilometres
VincentyDistance(p1, p2) == ArcKm(Arc(p1, p2))

----------------------------------------------------------------------------
(* find and findBoundingBox *)

\* findBoundingBox with the northward search first
SearchesNorthFirst == << "north", "east", "west", "south" >>

\* the order of the four calls of find in findBoundingBox
Searches == << "east", "north", "west", "south" >>

\* the direction constants
Dir(s) == IF s \in {"north", "east"} THEN 1 ELSE -1

\* the limit argument of each call
Limit(s) ==
    CASE s = "east"  -> LongLimit
      [] s = "north" -> LatLimit
      [] s = "west"  -> -LongLimit
      [] s = "south" -> -LatLimit

\* the limits as float64
Limits == [s \in {"east", "north", "west", "south"} |-> FloatOfMicro(Limit(s))]

\* the coordinate *adjust points to
Adjusted(s) == IF s \in {"north", "south"} THEN "Lat" ELSE "Long"

\* *adjust*float64(dir) > limit*float64(dir)
PastLimit(adj, s) ==
    IF Dir(s) = 1
    THEN FLess(Limits[s], adj)
    ELSE FLess(adj, Limits[s])

\* d > targetDistance, the test that ends the first loop
Beyond(d, targetDistance) == FLess(targetDistance, d)

\* inc := 1e-6
Inc == FloatOfMicro(InitialInc)

\* threshold := 0.0001
Tolerance == Km(BisectThreshold)

\* threshold at twice its value
LooseTolerance == Km(2 * BisectThreshold)

\* delta: d - targetDistance, and -delta if that is below 0
Delta(d, targetDistance) == FAbs(FSub(d, targetDistance))

\* the second loop ending at twice the tolerance
ConvergedLoose(d, targetDistance) ==
    FLess(Delta(d, targetDistance), LooseTolerance)

\* delta < threshold, the test that ends the second loop
Converged(d, targetDistance) ==
    FLess(Delta(d, targetDistance), Tolerance)

\* m: (a.Lat + b.Lat) / 2, (a.Long + b.Long) / 2
Midpoint(p, q) ==
    [Lat |-> FHalf(FAdd(p.Lat, q.Lat)), Long |-> FHalf(FAdd(p.Long, q.Long))]

\* findBoundingBox( *target, threshholdKm*2 )
Size == FDouble(threshholdKm)

Cur == Searches[search]

\* main.go:151-162: the first loop of find below the step, p2 the point with
\* the coordinate adj
Probe(adj, p2) ==
    /\ ext' = [ext EXCEPT ![Cur] = p2]
    /\ IF PastLimit(adj, Cur)
       THEN /\ pc' = "fatal"
            /\ err' = "too close to a pole or meridian"
            /\ UNCHANGED <<phase, inc, a, b>>
       ELSE IF VincentyFails(target, p2)
       THEN /\ pc' = "fatal"
            /\ err' = "Error computing distance"
            /\ UNCHANGED <<phase, inc, a, b>>
       ELSE IF Beyond(VincentyDistance(target, p2), Size)
       THEN /\ phase' = "bisect"
            /\ a' = target
            /\ b' = p2
            /\ UNCHANGED <<pc, err, inc>>
       ELSE /\ inc' = FDouble(inc)
            /\ UNCHANGED <<pc, err, phase, a, b>>

\* *adjust += inc * float64(dir), at the coordinate f of p2
Advance(f, adj) == Probe(adj, [ext[Cur] EXCEPT ![f] = adj])

\* the step of the first loop at the coordinate f
Step(f) ==
    Advance(f, FAdd(ext[Cur][f], IF Dir(Cur) = 1 THEN inc ELSE FNeg(inc)))

\* one iteration of the first loop of find
FindExpand ==
    /\ pc = "find"
    /\ phase = "expand"
    /\ Step(Adjusted(Cur))
    /\ UNCHANGED <<flagVars, target, threshholdKm, search, ne, sw, script, scanVars>>

\* find returns; findBoundingBox goes on to its next call of find, or
\* returns the two corners of the extremes done
Return(done) ==
    /\ ext' = done
    /\ phase' = "expand"
    /\ inc' = Inc
    /\ IF search < Len(Searches)
       THEN /\ search' = search + 1
            /\ UNCHANGED <<pc, ne, sw>>
       ELSE /\ ne' = [Lat |-> done["north"].Lat, Long |-> done["east"].Long]
            /\ sw' = [Lat |-> done["south"].Lat, Long |-> done["west"].Long]
            /\ pc' = "range"
            /\ UNCHANGED search
    /\ UNCHANGED <<a, b, err>>

\* main.go:178-190: the second loop below the distance d of the midpoint m
Halve(m, d) ==
    IF Converged(d, Size)
    THEN Return([ext EXCEPT ![Cur] = m])
    ELSE /\ IF Beyond(d, Size)
            THEN b' = m /\ a' = a
            ELSE a' = m /\ b' = b
         /\ UNCHANGED <<pc, err, ext, phase, inc, search, ne, sw>>

\* main.go:170-177: the second loop at the midpoint m
Bisect(m) ==
    IF VincentyFails(target, m)
    THEN /\ pc' = "fatal"
         /\ err' = "Error computing distance (phase 2)"
         /\ UNCHANGED <<ext, phase, inc, search, ne, sw, a, b>>
    ELSE Halve(m, VincentyDistance(target, m))

\* one iteration of the second loop of find; on return, the rest of
\* findBoundingBox up to the next call of find or to its own return
FindBisect ==
    /\ pc = "find"
    /\ phase = "bisect"
    /\ Bisect(Midpoint(a, b))
    /\ UNCHANGED <<flagVars, target, threshholdKm, script, scanVars>>

----------------------------------------------------------------------------
(* main: flags, parseDistance, the call of findBoundingBox *)

\* the default -lat and -long (main.go:43-44), in micro-degrees
DefaultTarget == [Lat |-> 36461755, Long |-> -116866612]

\* the point of the flags' values
Point(lat, long) == [Lat |-> FloatOfMicro(lat), Long |-> FloatOfMicro(long)]

\* -threshold values of the runs of main: "50m" (the default), "-0.01m",
\* "-50m", "9000km" and "50" (no unit)
ThresholdFlags ==
    { [count100 |-> 5000,   suffix |-> "m", numeric |-> TRUE],
      [count100 |-> -1,     suffix |-> "m", numeric |-> TRUE],
      [count100 |-> -5000,  suffix |-> "m", numeric |-> TRUE],
      [count100 |-> 900000, suffix |-> "km", numeric |-> TRUE],
      [count100 |-> 5000,   suffix |-> "", numeric |-> TRUE] }

\* main.go:257-261: log.Fatal on an error, else findBoundingBox is entered
Enter(r) ==
    IF r.err = ""
    THEN /\ threshholdKm' = r.km
         /\ pc' = "find"
         /\ err' = err
    ELSE /\ threshholdKm' = threshholdKm
         /\ pc' = "fatal"
         /\ err' = r.err

\* main.go:256-261: parse the threshold, then enter findBoundingBox
Start ==
    /\ pc = "start"
    /\ Enter(parseDistance(threshold))
    /\ UNCHANGED <<flagVars, target, script, boxVars, scanVars>>

----------------------------------------------------------------------------
(* main: the visit scan *)

\* the longest span of indexes the model scans
MaxSpan == 21

\* len of the span: no index returned, or a span of 1, 5 or MaxSpan indexes
SpanLengths == {0, 1, 5, MaxSpan}

\* loc.Time of the point at offset i of the span: one second per point
TimeOf(i) == i + 1

\* the distances the model draws for a candidate: 0, 20 m, 50 m, 80 m
DistanceSamples == {Km(0), Km(2000), Km(5000), Km(8000)}

\* a candidate lies in the box, so no farther from the target than the way
\* along the meridian to the box's edge and then along the edge to a corner,
\* each less than the box's size and the tolerance of find
CandidateDistances ==
    LET reach == FDouble(FAdd(FDouble(threshholdKm), Tolerance))
    IN  { d \in DistanceSamples : ~FLess(reach, d) }

\* d := threshholdKm * 2, the distance of an index that is no candidate
NonCandidateDistance == FDouble(threshholdKm)

\* d < threshholdKm
IsInside(d) == FLess(d, threshholdKm)

\* a run closing one outside point early
ClosesRunEarly(outside, i) == outside >= minPinpointCount - 1 \/ i = last

\* consecutiveOutsideCount >= minPinpointCount || idx == indexes[len(indexes)-1]
ClosesRun(outside, i) == outside >= minPinpointCount \/ i = last

\* a streak of exactly minPinpointCount not qualifying
QualifiesStrict(maxInside) == maxInside > minPinpointCount

\* maxConsecutiveInsideCount >= minPinpointCount
Qualifies(maxInside) == maxInside >= minPinpointCount

\* the start taken again at every streak of the run
StartsRunAtStreak(inside, total) == inside /\ consecutiveInsideCount = 0

\* totalInsideCount == 0 at an inside point: the point starts a run
StartsRun(inside, total) == inside /\ total = 0

\* what a script, if there is one, says of the point at idx
Scripted(d) == IF script = <<>> THEN TRUE ELSE (script[idx + 1] = "in") <=> IsInside(d)

\* the run evaluated without the two counters starting again
CloseRunKeepCounts(line) ==
    /\ visits' = IF Qualifies(line.maxc) THEN Append(visits, line) ELSE visits
    /\ dropped' = IF ~Qualifies(line.maxc) /\ line.total > 0
                  THEN Append(dropped, line) ELSE dropped
    /\ totalInsideCount' = line.total
    /\ maxConsecutiveInsideCount' = line.maxc

\* main.go:383-391: the run is evaluated and the two counters start again
CloseRun(line) ==
    /\ visits' = IF Qualifies(line.maxc) THEN Append(visits, line) ELSE visits
    /\ dropped' = IF ~Qualifies(line.maxc) /\ line.total > 0
                  THEN Append(dropped, line) ELSE dropped
    /\ totalInsideCount' = 0
    /\ maxConsecutiveInsideCount' = 0

\* main.go:364-392: the body of the loop below the distance lookup
Classify(d) ==
    LET inside == IsInside(d)
        start1 == IF StartsRun(inside, totalInsideCount) THEN TimeOf(idx) ELSE startTime
        end1 == IF inside THEN TimeOf(idx) ELSE endTime
        total1 == IF inside THEN totalInsideCount + 1 ELSE totalInsideCount
        consIn1 == IF inside THEN consecutiveInsideCount + 1 ELSE 0
        max1 == IF inside /\ consIn1 > maxConsecutiveInsideCount
                THEN consIn1 ELSE maxConsecutiveInsideCount
        consOut1 == IF inside THEN 0 ELSE consecutiveOutsideCount + 1
        line == [start |-> start1, end |-> end1, total |-> total1, maxc |-> max1]
    IN  /\ startTime' = start1
        /\ endTime' = end1
        /\ consecutiveInsideCount' = consIn1
        /\ consecutiveOutsideCount' = consOut1
        /\ IF ClosesRun(consOut1, idx)
           THEN CloseRun(line)
           ELSE /\ totalInsideCount' = total1
                /\ maxConsecutiveInsideCount' = max1
                /\ UNCHANGED <<visits, dropped>>

\* main.go:337-349: the range query; the span runs from the smallest to the
\* largest index it returns
RangeQuery ==
    /\ pc = "range"
    /\ \E n \in IF script = <<>> THEN SpanLengths ELSE {Len(script)} :
         IF n = 0
         THEN pc' = "exit" /\ UNCHANGED scanVars
         ELSE /\ pc' = "scan"
              /\ last' = n - 1
              /\ idx' = 0
              /\ UNCHANGED <<startTime, endTime, totalInsideCount,
                             consecutiveInsideCount, maxConsecutiveInsideCount,
                             consecutiveOutsideCount, visits, dropped>>
    /\ UNCHANGED <<flagVars, target, threshholdKm, err, script, boxVars>>

\* one iteration of the loop at an index of the candidate set
ScanCandidate ==
    /\ pc = "scan"
    /\ idx <= last
    /\ \/ /\ script = <<>>
          /\ UNCHANGED <<startTime, endTime, totalInsideCount,
                         consecutiveInsideCount, maxConsecutiveInsideCount,
                         consecutiveOutsideCount, visits, dropped>>
       \/ \E d \in CandidateDistances :
            /\ Scripted(d)
            /\ Classify(d)
    /\ idx' = idx + 1
    /\ UNCHANGED <<pc, flagVars, target, threshholdKm, err, script, boxVars, last>>

\* one iteration of the loop at an index that is not in the candidate set;
\* the first and the last index of the span are candidates
ScanNonCandidate ==
    /\ pc = "scan"
    /\ idx <= last
    /\ idx # 0
    /\ idx # last
    /\ Scripted(NonCandidateDistance)
    /\ Classify(NonCandidateDistance)
    /\ idx' = idx + 1
    /\ UNCHANGED <<pc, flagVars, target, threshholdKm, err, script, boxVars, last>>

\* the loop ends and main returns
ScanDone ==
    /\ pc = "scan"
    /\ idx > last
    /\ pc' = "exit"
    /\ UNCHANGED <<flagVars, target, threshholdKm, err, script, boxVars, scanVars>>

----------------------------------------------------------------------------
(* Specifications *)

InitWith(targets, flags, scripts) ==
    /\ pc = "start"
    /\ \E t \in targets : latitude = t.Lat /\ longitude = t.Long
    /\ threshold \in flags
    /\ target = Point(latitude, longitude)
    /\ threshholdKm = Zero
    /\ search = 1
    /\ phase = "expand"
    /\ inc = Inc
    /\ ext = [s \in {"east", "north", "west", "south"} |-> target]
    /\ a = target
    /\ b = target
    /\ ne = target
    /\ sw = target
    /\ err = ""
    /\ script \in scripts
    /\ last = 0
    /\ idx = 0
    /\ startTime = 0
    /\ endTime = 0
    /\ totalInsideCount = 0
    /\ consecutiveInsideCount = 0
    /\ maxConsecutiveInsideCount = 0
    /\ consecutiveOutsideCount = 0
    /\ visits = <<>>
    /\ dropped = <<>>

Init == InitWith({DefaultTarget}, ThresholdFlags, {<<>>})

Next ==
    \/ Start
    \/ FindExpand
    \/ FindBisect
    \/ RangeQuery
    \/ ScanCandidate
    \/ ScanNonCandidate
    \/ ScanDone

Spec == Init /\ [][Next]_vars

(* findBoundingBox alone, over more centers and radii *)

\* centers: the default target, and (0, 0), (60, 0), (89, 0), (89.999, 0)
Targets ==
    { DefaultTarget,
      [Lat |-> 0,        Long |-> 0],
      [Lat |-> 60000000, Long |-> 0],
      [Lat |-> 89000000, Long |-> 0],
      [Lat |-> 89999000, Long |-> 0] }

\* -threshold values: those of ThresholdFlags and "0m", "164ft", "27m",
\* "28.75m", "50km", "500km", "1mi", "-0.03m", "-0.04m", "-0.16ft", "fiftym"
BoxFlags ==
    ThresholdFlags \cup
    { [count100 |-> 0,      suffix |-> "m", numeric |-> FALSE],
      [count100 |-> -16,    suffix |-> "ft", numeric |-> TRUE],
      [count100 |-> 100,    suffix |-> "mi", numeric |-> TRUE],
      [count100 |-> -3,     suffix |-> "m", numeric |-> TRUE],
      [count100 |-> -4,     suffix |-> "m", numeric |-> TRUE],
      [count100 |-> 0,      suffix |-> "m", numeric |-> TRUE],
      [count100 |-> 16400,  suffix |-> "ft", numeric |-> TRUE],
      [count100 |-> 2700,   suffix |-> "m", numeric |-> TRUE],
      [count100 |-> 2875,   suffix |-> "m", numeric |-> TRUE],
      [count100 |-> 5000,   suffix |-> "km", numeric |-> TRUE],
      [count100 |-> 50000,  suffix |-> "km", numeric |-> TRUE] }

InitBox == InitWith(Targets, BoxFlags, {<<>>})

NextBox ==
    \/ Start
    \/ FindExpand
    \/ FindBisect

SpecBox == InitBox /\ [][NextBox]_vars

\* the next iteration of the second loop of find returns (the midpoint is
\* within the tolerance, or the distance fails) or moves the bound it
\* replaces
BisectMoves ==
    LET m == Midpoint(a, b)
        d == VincentyDistance(target, m)
    IN  \/ VincentyFails(target, m)
        \/ FLess(Delta(d, FDouble(threshholdKm)), Tolerance)
        \/ IF FLess(FDouble(threshholdKm), d) THEN m # b ELSE m # a

\* ENABLED <<NextBox>>_vars, written out: the program has a step that
\* changes its state
CanStep == pc = "start" \/ (pc = "find" /\ (phase = "bisect" => BisectMoves))

\* findBoundingBox runs on: the program is one goroutine, which takes its
\* next step whenever it has one.  This is WF_vars(NextBox) with its
\* ENABLED written out as CanStep
SpecBoxLive == SpecBox /\ ([]<>(~CanStep) \/ []<><<NextBox>>_vars)

(* main over point sequences made of blocks of inside points *)

\* the most blocks in a sequence
MaxBlocks == 2

\* a block: a streak of inside points, or two streaks a single outside
\* point apart
BlockShapes ==
    { [k \in 1..minPinpointCount |-> "in"],
      [k \in 1..(minPinpointCount + 5) |-> "in"],
      [k \in 1..(minPinpointCount + 4) |-> IF k = minPinpointCount + 1 THEN "out" ELSE "in"] }

\* the outside points between two blocks
GapShapes ==
    { [k \in 1..minPinpointCount |-> "out"],
      [k \in 1..(minPinpointCount + 2) |-> "out"] }

\* the outside points before the first and after the last block
EdgeShapes == { <<>>, << "out" >> }

RECURSIVE BlockSequences(_)
BlockSequences(n) ==
    IF n = 1
    THEN BlockShapes
    ELSE { s \o g \o blk : s \in BlockSequences(n - 1), g \in GapShapes, blk \in BlockShapes }

BlockScripts ==
    { lead \o s \o tail :
        lead \in EdgeShapes, tail \in EdgeShapes,
        s \in UNION { BlockSequences(n) : n \in 1..MaxBlocks } }

InitBlocks ==
    InitWith({DefaultTarget}, { [count100 |-> 5000, suffix |-> "m", numeric |-> TRUE] }, BlockScripts)

SpecBlocks == InitBlocks /\ [][Next]_vars

----------------------------------------------------------------------------
(* Properties of the visit scan *)

\* the step processes a point classified outside / inside (a skipped point
\* changes neither counter)
OutsideStep == pc = "scan" /\ consecutiveOutsideCount' = consecutiveOutsideCount + 1
InsideStep == pc = "scan" /\ consecutiveInsideCount' = consecutiveInsideCount + 1

\* the lines logged so far
Logged == Len(visits) + Len(dropped)

\* C1: hysteresis.  An outside point that is at most the 9th in a row and
\* not the last index of the span leaves totalInsideCount,
\* maxConsecutiveInsideCount, start, end and the logged lines alone, and an
\* inside point that follows at most 9 outside points is counted in the run
\* already open; the 10th outside point in a row closes the run: both
\* counters are 0 after it and the run, if it had an inside point, is logged
\* (as a visit or as dropped).
C1_Hysteresis ==
    [][ /\ (OutsideStep /\ consecutiveOutsideCount' < 10 /\ idx # last)
             => UNCHANGED <<totalInsideCount, maxConsecutiveInsideCount,
                            startTime, endTime, visits, dropped>>
        /\ (InsideStep /\ consecutiveOutsideCount < 10 /\ idx # last)
             => /\ totalInsideCount' = totalInsideCount + 1
                /\ totalInsideCount > 0 => startTime' = startTime
                /\ UNCHANGED <<visits, dropped>>
        /\ (OutsideStep /\ consecutiveOutsideCount' = 10)
             => /\ totalInsideCount' = 0
                /\ maxConsecutiveInsideCount' = 0
                /\ Logged' = Logged + (IF totalInsideCount > 0 THEN 1 ELSE 0)
      ]_vars

\* a run of two inside points 9 outside points apart, closed by the 10th
\* outside point after it
C1_Witness ==
    /\ pc = "scan"
    /\ consecutiveOutsideCount = 10
    /\ totalInsideCount = 0
    /\ \E i \in 1..Len(dropped) :
         /\ dropped[i].total = 2
         /\ dropped[i].maxc = 1
         /\ dropped[i].end - dropped[i].start = 10
         /\ idx = dropped[i].end + 10

\* the streak the closure test sees: the counter after the point is counted
StreakAfter ==
    IF consecutiveInsideCount' > maxConsecutiveInsideCount
    THEN consecutiveInsideCount' ELSE maxConsecutiveInsideCount

\* C2: qualification.  A step reports a visit only where a run closes (the
\* point is the 10th or later outside point in a row, or the last index),
\* and where a run closes a visit is reported if and only if the longest
\* streak of the run is at least 10, whatever the total; every reported
\* visit has a streak of at least 10 among at least 10 inside points, every
\* dropped run a streak of at most 9, and a span of 5 points reports nothing.
C2_Qualification ==
    [][ /\ ((OutsideStep \/ InsideStep) /\ (consecutiveOutsideCount' >= 10 \/ idx = last))
             => /\ StreakAfter >= 10 => /\ Len(visits') = Len(visits) + 1
                                        /\ visits'[Len(visits')].maxc = StreakAfter
                /\ StreakAfter <= 9 => visits' = visits
        /\ ~((OutsideStep \/ InsideStep) /\ (consecutiveOutsideCount' >= 10 \/ idx = last))
             => visits' = visits
        /\ \A i \in 1..Len(visits') : visits'[i].maxc >= 10 /\ visits'[i].total >= 10
        /\ \A i \in 1..Len(dropped') : dropped'[i].maxc <= 9
        /\ (pc' = "scan" /\ last' = 4) => visits' = <<>>
      ]_vars

\* a run of 18 inside points whose longest streak is 9, dropped
C2_Witness ==
    /\ pc = "exit"
    /\ visits = <<>>
    /\ \E i \in 1..Len(dropped) : dropped[i].maxc = 9 /\ dropped[i].total = 18

\* the blocks of a sequence of outcomes: an inside point starts a block if
\* none of the 10 points before it is inside; a block ends at the last inside
\* point before the next start (or of the sequence); its streak is the
\* length of the longest stretch of inside points in it
InIdx(s) == { i \in 1..Len(s) : s[i] = "in" }
BlockStarts(s) ==
    LET in == InIdx(s)
    IN  { i \in in : \A j \in (i - 10)..(i - 1) : j \notin in }
BlockEnd(s, i) ==
    LET in == InIdx(s)
        later == { j \in BlockStarts(s) : j > i }
    IN  CHOOSE e \in in :
            /\ e >= i
            /\ \A j \in later : e < j
            /\ \A f \in in : (f > e) => \E j \in later : j <= f
BlockStreak(s, i) ==
    LET in == InIdx(s)
        e == BlockEnd(s, i)
        streak(x) == CHOOSE n \in 0..(e - x + 1) :
                        /\ \A k \in x..(x + n - 1) : k \in in
                        /\ (x + n) \notin in
    IN  CHOOSE n \in { streak(x) : x \in i..e } : \A x \in i..e : streak(x) <= n
ExpectedVisits(s) ==
    LET starts == BlockStarts(s)
        in == InIdx(s)
        nth(k) == CHOOSE i \in starts : Cardinality({ j \in starts : j < i }) = k - 1
        visit(i) == LET e == BlockEnd(s, i)
                    IN  [ start |-> i, end |-> e,
                          total |-> Cardinality({ j \in in : i <= j /\ j <= e }),
                          maxc |-> BlockStreak(s, i) ]
    IN  [ k \in 1..Cardinality(starts) |-> visit(nth(k)) ]

\* C3: for a sequence made of qualifying blocks 10 or more outside points
\* apart, the scan reports exactly one visit per block, in index order, each
\* with the time of the block's first and last inside point, the number of
\* its inside points and its longest streak.  (The point at offset i of the
\* span is the i+1st of the sequence and has the time i+1.)
C3_OneVisitPerBlock ==
    (pc = "exit" /\ script # <<>>) => visits = ExpectedVisits(script)

\* 15 inside, 12 outside, 15 inside: two visits of 15 points each
C3_Witness ==
    /\ pc = "exit"
    /\ script = [k \in 1..42 |-> IF k > 15 /\ k <= 27 THEN "out" ELSE "in"]
    /\ visits = << [start |-> 1, end |-> 15, total |-> 15, maxc |-> 15],
                   [start |-> 28, end |-> 42, total |-> 15, maxc |-> 15] >>

\* C7: when the scan has ended, every run whose longest streak reached 10
\* has been evaluated: no such run is still held in the counters.  (Stated
\* of the runs of main with a positive threshold.)
C7_ClosedAtEnd ==
    (pc = "exit" /\ FLess(Zero, threshholdKm)) => maxConsecutiveInsideCount < 10

\* C8: an index that is not in the candidate set is outside: its distance,
\* twice the threshold, is not below the threshold, and processing it adds
\* one to consecutiveOutsideCount, sets consecutiveInsideCount to 0, does
\* not add to totalInsideCount and leaves start and end alone.
C8_NonCandidateOutside ==
    [][ ScanNonCandidate =>
          /\ ~FLess(FDouble(threshholdKm), threshholdKm)
          /\ consecutiveOutsideCount' = consecutiveOutsideCount + 1
          /\ consecutiveInsideCount' = 0
          /\ totalInsideCount' <= totalInsideCount
          /\ UNCHANGED <<startTime, endTime>>
      ]_vars

\* C10: every reported visit has 10 <= maxc <= total, the reported visits
\* are runs one after the other (none is reported twice), and an outside
\* point that comes after the 10th in a row logs nothing.
C10_ReportedOnce ==
    [][ /\ \A i \in 1..Len(visits') :
             /\ 10 <= visits'[i].maxc
             /\ visits'[i].maxc <= visits'[i].total
             /\ visits'[i].start <= visits'[i].end
             /\ i > 1 => visits'[i - 1].end < visits'[i].start
        /\ (OutsideStep /\ consecutiveOutsideCount >= 10 /\ idx # last)
             => UNCHANGED <<visits, dropped, totalInsideCount, maxConsecutiveInsideCount>>
      ]_vars

\* a visit reported at the 10th outside point, and an 11th outside point
C10_Witness ==
    /\ pc = "scan"
    /\ Len(visits) = 1
    /\ consecutiveOutsideCount = 11
    /\ idx = visits[1].end + 11

----------------------------------------------------------------------------
(* Properties of findBoundingBox *)

\* the coordinate k steps of the resolution of c after c
Nudge(c, k) == FAdd(c, [neg |-> k < 0, m |-> Digits(Abs(k)), e |-> c.e])

\* the points next to the four extremes, up to MaxProbe steps of the
\* coordinate resolution beyond them
MaxProbe == 2

ProbePoints ==
    { [ext[s] EXCEPT ![Adjusted(s)] = Nudge(@, j * Dir(s))] :
        s \in {"east", "north", "west", "south"}, j \in 0..MaxProbe }

InBox(q) ==
    /\ ~FLess(q.Lat, sw.Lat) /\ ~FLess(ne.Lat, q.Lat)
    /\ ~FLess(q.Long, sw.Long) /\ ~FLess(ne.Long, q.Long)

\* C4: when findBoundingBox has returned a box, every point within the
\* radius of the center lies in the box.  Stated of the points of the
\* center's meridian and parallel next to the four extremes that are
\* closer to the center than the radius.
C4_Superset ==
    (pc = "range") =>
        \A q \in ProbePoints :
            FLess(VincentyDistance(target, q), FDouble(threshholdKm)) => InBox(q)

\* the micro-degrees from the center to the limit of the search s, and, for
\* a longitude, to the limit or to the meridian opposite the center,
\* whichever is nearer
Reach(s) ==
    IF Adjusted(s) = "Lat"
    THEN Abs(Limit(s) - latitude)
    ELSE Min(Abs(Limit(s) - longitude), LongLimit)

\* the point of the center's meridian or parallel k half micro-degrees
\* from the center in the direction of the search s
Ahead(s, k) ==
    IF Adjusted(s) = "Lat"
    THEN [target EXCEPT !.Lat = FHalf(FloatOfMicro(2 * latitude + Dir(s) * k))]
    ELSE [target EXCEPT !.Long = FHalf(FloatOfMicro(2 * longitude + Dir(s) * k))]

\* the point of the center's meridian or parallel that is farthest from the
\* center among those the search s can step to without passing its limit
FarthestBeforeLimit(s) == Ahead(s, 2 * Reach(s))

\* findBoundingBox has been called
Called == pc # "start" /\ ParseError(threshold) = ""

\* the disk does not reach a pole or the +-180 meridian
DiskClearOfLimits ==
    /\ ~threshholdKm.neg
    /\ \A s \in {"east", "north", "west", "south"} :
         FLess(FDouble(threshholdKm), VincentyDistance(target, FarthestBeforeLimit(s)))

\* the distance of p from the center is within tol of the radius
OffRadius(p, tol) ==
    FLess(FAbs(FSub(VincentyDistance(target, p), FDouble(threshholdKm))), tol)

TooClose == pc = "fatal" /\ err = "too close to a pole or meridian"

\* C5 as claimed: if the disk does not reach a pole or the +-180 meridian,
\* findBoundingBox does not fail, and the extremes of the box it returns are
\* within 0.0001 km of the radius.
C5_Original ==
    (pc \in {"find", "range"} \/ TooClose) /\ DiskClearOfLimits =>
        /\ pc # "fatal"
        /\ pc = "range" =>
             \A s \in {"east", "north", "west", "south"} :
                 OffRadius(ext[s], Km(10))

\* in each of the four directions, the point 1e-6 degree short of halfway
\* from the center to the limit (for a longitude: to the limit or to the
\* meridian opposite the center, whichever is nearer) is farther from the
\* center than the radius, and the radius is not negative
HalfwayBeyondRadius ==
    /\ ~threshholdKm.neg
    /\ \A s \in {"east", "north", "west", "south"} :
         /\ Reach(s) >= 2
         /\ FLess(FDouble(threshholdKm),
                    VincentyDistance(target, Ahead(s, Reach(s) - 2)))

\* C5 amended: for any center and radius R >= 0 such that, in each of the
\* four directions, the point 1e-6 degree short of halfway from the center
\* to the limit is farther than R from the center, findBoundingBox
\* succeeds (it does not fail, and it returns), and each of the four
\* extremes it has found is within 0.0001 km of R.
C5_Amended ==
    /\ [](Called /\ HalfwayBeyondRadius =>
            /\ pc # "fatal"
            /\ pc = "range" =>
                 \A s \in {"east", "north", "west", "south"} :
                     OffRadius(ext[s], Km(10)))
    /\ [](Called /\ HalfwayBeyondRadius => <>(pc = "range"))

\* a box for R = 100 km around (60, 0), where the points short of halfway
\* to the limits are 1671 km and 5022 km away
C5_Witness ==
    /\ pc = "range"
    /\ latitude = 60000000
    /\ longitude = 0
    /\ threshold = [count100 |-> 5000, suffix |-> "km", numeric |-> TRUE]
    /\ HalfwayBeyondRadius
    /\ ext["north"] # target
    /\ ext["east"] # target

\* the run of scenario 5: latitude 89.999, R = 100 km
PolarCase ==
    /\ latitude = 89999000
    /\ threshold = [count100 |-> 5000, suffix |-> "km", numeric |-> TRUE]

\* C6 as claimed: the run fails as too close to a pole or meridian, returns
\* no box, and the search that fails is the northward one.
C6_Original ==
    (PolarCase /\ pc \notin {"start", "find"}) => (TooClose /\ search = 2)

\* C6 amended: the run fails as too close to a pole or meridian, returns no
\* box, and the search that fails is the eastward one, the first of the
\* four; the northward search is never started.
C6_Amended ==
    (PolarCase /\ pc \notin {"start", "find"}) =>
        /\ TooClose
        /\ search = 1
        /\ FLess(Limits["east"], ext["east"].Long)
        /\ ext["north"] = target

C6_Witness == PolarCase /\ TooClose

\* C9: find always returns: while the second loop of find runs, its next
\* iteration either returns (the midpoint is within the tolerance, or the
\* distance fails) or moves the bound it replaces (a deterministic loop
\* whose iteration changes nothing never ends).
C9_FindProgresses ==
    (pc = "find" /\ phase = "bisect") => BisectMoves

====
